---- MODULE Spec2Model ----
(***************************************************************************)
(* Model of the astro repository: the AstrologyReader form component       *)
(* (its four pieces of React state and the asynchronous handleFinish) and  *)
(* the NatalChart component (the useMemo position computation and the      *)
(* radius rule of the SVG layout).                                         *)
(*                                                                         *)
(* Numbers.  JavaScript numbers are IEEE-754 doubles.  Angles are modelled *)
(* as integers counting units of 1/Sub degree, and the one rounding        *)
(* operation of the position computation (longitude += 360) rounds to the  *)
(* nearest representable value, ties to even, of a binary floating-point   *)
(* format with MantissaBits bits of precision (53 in the real format).     *)
(* A nullable value (T | null) is the empty sequence or <<v>>.             *)
(***************************************************************************)
EXTENDS Integers, Sequences, FiniteSets

VARIABLES
    loading,            \* useState<boolean>(false)
    result,             \* useState<string | null>(null)
    error,              \* useState<string | null>(null)
    chartData,          \* useState<ChartData | null>(null)
    requests,           \* axios.post calls that have neither resolved nor rejected
    started,            \* number of handleFinish calls so far
    mounted,            \* FALSE once a render has thrown (React unmounts the tree)
    memoDeps,           \* [dob, tob] the useMemo result was computed for
    dateObj,            \* the Date handed to Astronomy.GeoVector
    lookup,             \* what the ephemeris provider did in the last computation
    planetaryPositions, \* the useMemo result
    markers             \* the radius each body marker was drawn at

vars == <<loading, result, error, chartData, requests, started,
          mounted, memoDeps, dateObj, lookup, planetaryPositions, markers>>

readerVars == <<loading, result, error, chartData, requests, started>>
chartVars == <<memoDeps, dateObj, lookup, planetaryPositions, markers>>

----------------------------------------------------------------------------
(* Bounds of the model *)

MaxSubmits == 2      \* handleFinish calls explored
SubBits == 1         \* angles are counted in units of 1/2^SubBits degree
MantissaBits == 8    \* precision of the modelled floating-point format

----------------------------------------------------------------------------
(* Nullable values *)

Null == <<>>
Some(v) == <<v>>
Get(n) == n[1]

----------------------------------------------------------------------------
(* Floating-point arithmetic on angles *)

RECURSIVE Pow2(_)
Pow2(n) == IF n <= 0 THEN 1 ELSE 2 * Pow2(n - 1)

RECURSIVE Log2Floor(_)
Log2Floor(v) == IF v < 2 THEN 0 ELSE 1 + Log2Floor(v \div 2)

Abs(v) == IF v < 0 THEN -v ELSE v

Sub == Pow2(SubBits)

\* spacing of the representable values around v, in units
Ulp(v) == IF v = 0 THEN 1 ELSE Pow2(Log2Floor(Abs(v)) + 1 - MantissaBits)

Representable(v) == v % Ulp(v) = 0

\* round to nearest, ties to even
RoundNearestEven(v) ==
    LET a == Abs(v)
        u == Ulp(a)
        lo == a - (a % u)
        hi == lo + u
        r == IF (a - lo) * 2 < u THEN lo
             ELSE IF (a - lo) * 2 > u THEN hi
             ELSE IF (lo \div u) % 2 = 0 THEN lo ELSE hi
    IN  IF v < 0 THEN -r ELSE r

FloatAdd(a, b) == RoundNearestEven(a + b)

----------------------------------------------------------------------------
(* dayjs values: the fields the code reads and sets *)

Dayjs(y, mo, d, h, mi, sec, ms) ==
    [year |-> y, month |-> mo, date |-> d,
     hour |-> h, minute |-> mi, second |-> sec, millisecond |-> ms]

\* dob.hour(h), .minute(m), .second(s): a copy with one field replaced
SetHour(d, h) == [d EXCEPT !.hour = h]
SetMinute(d, m) == [d EXCEPT !.minute = m]
SetSecond(d, sec) == [d EXCEPT !.second = sec]

\* days from 1970-01-01 to the civil date (month counted from 1)
DaysFromCivil(y, mo, d) ==
    LET yy == IF mo <= 2 THEN y - 1 ELSE y
        era == yy \div 400
        yoe == yy - era * 400
        mp == IF mo > 2 THEN mo - 3 ELSE mo + 9
        doy == (153 * mp + 2) \div 5 + d - 1
        doe == yoe * 365 + yoe \div 4 - yoe \div 100 + doy
    IN  era * 146097 + doe - 719468

\* .toDate(): the instant, as whole days and milliseconds within the day
ToDate(d) ==
    [day |-> DaysFromCivil(d.year, d.month, d.date),
     ms |-> ((d.hour * 60 + d.minute) * 60 + d.second) * 1000 + d.millisecond]

\* values the DatePicker and the TimePicker can hand to the form: a picked
\* date keeps a time of day, a picked time keeps a date
Dobs == { Dayjs(1990, 6, d[1], 9, 12, 33, d[2]) : d \in {<<15, 0>>, <<15, 250>>, <<16, 0>>} }
Tobs == { Dayjs(2024, 3, 1, 14, t[1], t[2], 0) : t \in {<<30, 0>>, <<30, 45>>, <<31, 0>>} }

\* the timestamp of the position computation
BirthDate(dob, tob) ==
    ToDate(SetSecond(SetMinute(SetHour(dob, tob.hour), tob.minute), 0))

----------------------------------------------------------------------------
(* NatalChart: static tables *)

ZODIAC_SIGNS ==
    << [name |-> "Aries", start |-> 0],        [name |-> "Taurus", start |-> 30],
       [name |-> "Gemini", start |-> 60],      [name |-> "Cancer", start |-> 90],
       [name |-> "Leo", start |-> 120],        [name |-> "Virgo", start |-> 150],
       [name |-> "Libra", start |-> 180],      [name |-> "Scorpio", start |-> 210],
       [name |-> "Sagittarius", start |-> 240], [name |-> "Capricorn", start |-> 270],
       [name |-> "Aquarius", start |-> 300],   [name |-> "Pisces", start |-> 330] >>

PLANETS ==
    << [name |-> "Sun"], [name |-> "Moon"], [name |-> "Mercury"], [name |-> "Venus"],
       [name |-> "Mars"], [name |-> "Jupiter"], [name |-> "Saturn"] >>

----------------------------------------------------------------------------
(* The ephemeris provider.  Only the direction of the (x, y) projection of *)
(* a vector is used, so a vector is represented by the value of            *)
(* Math.atan2(y, x) * (180 / Math.PI), a representable number in           *)
(* [-180, 180], in units.  The sampled directions are the multiples of 30  *)
(* degrees and their neighbours one unit away.                             *)

RawAngles ==
    { v \in { d * 30 * Sub + o : d \in -6..6, o \in {-1, 0, 1} } :
        /\ -180 * Sub <= v
        /\ v <= 180 * Sub
        /\ Representable(v) }

RECURSIVE SortedSeq(_)
SortedSeq(S) ==
    IF S = {} THEN <<>>
    ELSE LET m == CHOOSE x \in S : \A y \in S : x <= y
         IN  <<m>> \o SortedSeq(S \ {m})

RawSeq == SortedSeq(RawAngles)

\* what the provider does during one computation: sky selects the
\* directions of the seven bodies, failing is the index of the body whose
\* lookup throws (0: none)
Lookups == [sky : 0..(Len(RawSeq) - 1), failing : 0..Len(PLANETS)]

GeoVector(k, lk) ==
    [threw |-> lk.failing = k,
     deg |-> RawSeq[((lk.sky + k - 1) % Len(RawSeq)) + 1]]

Atan2Deg(vector) == vector.deg

----------------------------------------------------------------------------
(* NatalChart: the position computation *)

\* let longitude = atan2(...) * (180 / PI); if (longitude < 0) longitude += 360
Longitude(raw) == IF raw < 0 THEN FloatAdd(raw, 360 * Sub) ELSE raw

\* Math.floor(longitude / 30).  For a representable longitude the rounded
\* quotient has the floor of the exact quotient, so the division is exact here.
SignIndex(longitude) == longitude \div (30 * Sub)

\* ZODIAC_SIGNS[signIndex]?.name || ""
SignName(signIndex) ==
    IF signIndex \in 0..(Len(ZODIAC_SIGNS) - 1)
    THEN ZODIAC_SIGNS[signIndex + 1].name
    ELSE ""

Position(k, vector) ==
    LET longitude == Longitude(Atan2Deg(vector))
    IN  [name |-> PLANETS[k].name,
         degree |-> longitude,
         sign |-> SignName(SignIndex(longitude))]

\* PLANETS.map(...) from index k on: a throwing lookup ends the map and
\* propagates; nothing is returned
RECURSIVE MapPlanets(_, _)
MapPlanets(k, lk) ==
    IF k > Len(PLANETS) THEN [threw |-> FALSE, out |-> <<>>]
    ELSE LET vector == GeoVector(k, lk)
         IN  IF vector.threw THEN [threw |-> TRUE, out |-> <<>>]
             ELSE LET rest == MapPlanets(k + 1, lk)
                  IN  [threw |-> rest.threw,
                       out |-> IF rest.threw THEN <<>>
                               ELSE <<Position(k, vector)>> \o rest.out]

----------------------------------------------------------------------------
(* NatalChart: SVG configuration and body placement *)

size == 320
center == size \div 2
radius == size \div 2 - 10
innerRadius == radius - 40
markerRadius == 10

PlanetRadiusSame(index) == innerRadius - 20

\* const planetRadius = innerRadius - 20 - (index % 2) * 15  (index from 0)
PlanetRadius(index) == innerRadius - 20 - (index % 2) * 15

Layout(positions) == [i \in 1..Len(positions) |-> PlanetRadius(i - 1)]

----------------------------------------------------------------------------
(* NatalChart: one render.  React renders the component when chartData is  *)
(* set; useMemo recomputes when [dob, tob] changed.  An exception thrown   *)
(* by the computation leaves the render: nothing is returned or drawn, and *)
(* React, with no error boundary in the tree, unmounts it.                 *)

\* chartData changed and NatalChart has not been rendered with it yet
RenderPending == mounted /\ chartData # Null /\ memoDeps # chartData

RenderNatalChart(lk) ==
    /\ RenderPending
    /\ LET dob == Get(chartData).dob
           tob == Get(chartData).tob
           mapped == MapPlanets(1, lk)
       IN  /\ lookup' = Some(lk)
           /\ dateObj' = Some(BirthDate(dob, tob))
           /\ IF mapped.threw
              THEN /\ mounted' = FALSE
                   /\ memoDeps' = Null
                   /\ planetaryPositions' = <<>>
                   /\ markers' = <<>>
              ELSE /\ memoDeps' = chartData
                   /\ planetaryPositions' = mapped.out
                   /\ markers' = Layout(mapped.out)
                   /\ UNCHANGED mounted
    /\ UNCHANGED readerVars

----------------------------------------------------------------------------
(* AstrologyReader *)

ApiError == "The connection to the stars is cloudy (API Error). Please try again."

\* the form values handleFinish reads for its state (name and gender only
\* reach the prompt text)
FormValues == [dob : Dobs, tob : Tobs]

\* how an axios.post can end: rejected, or resolved with no data, with an
\* empty result, or with a reading
Responses ==
    { [resolved |-> FALSE, data |-> Null],
      [resolved |-> TRUE, data |-> Null],
      [resolved |-> TRUE, data |-> Some([result |-> ""])],
      [resolved |-> TRUE, data |-> Some([result |-> "a reading"])] }

SubmitAlwaysEnabled == TRUE

\* <Button htmlType="submit" loading={loading}>: a loading button takes no click
SubmitEnabled == ~loading

HandleFinishStartKeepsResult(values) ==
    /\ loading' = TRUE
    /\ error' = Null
    /\ chartData' = Some([dob |-> values.dob, tob |-> values.tob])
    /\ requests' = requests \cup {[id |-> started + 1, values |-> values]}
    /\ started' = started + 1
    /\ UNCHANGED <<result, mounted>>
    /\ UNCHANGED chartVars

HandleFinishStartNoChart(values) ==
    /\ loading' = TRUE
    /\ result' = Null
    /\ error' = Null
    /\ chartData' = Null
    /\ requests' = requests \cup {[id |-> started + 1, values |-> values]}
    /\ started' = started + 1
    /\ UNCHANGED mounted
    /\ UNCHANGED chartVars

\* handleFinish up to the await: the four resets, setChartData and axios.post
HandleFinishStart(values) ==
    /\ loading' = TRUE
    /\ result' = Null
    /\ error' = Null
    /\ chartData' = Some([dob |-> values.dob, tob |-> values.tob])
    /\ requests' = requests \cup {[id |-> started + 1, values |-> values]}
    /\ started' = started + 1
    /\ UNCHANGED mounted
    /\ UNCHANGED chartVars

ValidResponse(response) ==
    /\ response.resolved
    /\ response.data # Null
    /\ Get(response.data).result # ""

HandleFinishSettleNoFinally(r, response) ==
    /\ requests' = requests \ {r}
    /\ IF ValidResponse(response)
       THEN /\ result' = Some(Get(response.data).result)
            /\ loading' = FALSE
            /\ UNCHANGED error
       ELSE /\ error' = Some(ApiError)
            /\ UNCHANGED <<result, loading>>
    /\ UNCHANGED <<chartData, started, mounted>>
    /\ UNCHANGED chartVars

\* handleFinish after the await: the response handling, catch and finally
HandleFinishSettle(r, response) ==
    /\ requests' = requests \ {r}
    /\ IF ValidResponse(response)
       THEN /\ result' = Some(Get(response.data).result)
            /\ UNCHANGED error
       ELSE /\ error' = Some(ApiError)
            /\ UNCHANGED result
    /\ loading' = FALSE
    /\ UNCHANGED <<chartData, started, mounted>>
    /\ UNCHANGED chartVars

----------------------------------------------------------------------------
(* The state machine *)

Init ==
    /\ loading = FALSE
    /\ result = Null
    /\ error = Null
    /\ chartData = Null
    /\ requests = {}
    /\ started = 0
    /\ mounted = TRUE
    /\ memoDeps = Null
    /\ dateObj = Null
    /\ lookup = Null
    /\ planetaryPositions = <<>>
    /\ markers = <<>>

\* the user submits the validated form.  React renders a state change
\* before the browser delivers the next event, so no handler runs while a
\* render is pending.
Submit ==
    \E values \in FormValues :
        /\ mounted
        /\ ~RenderPending
        /\ SubmitEnabled
        /\ started < MaxSubmits
        /\ HandleFinishStart(values)

\* an outstanding request resolves or rejects
Settle ==
    \E r \in requests, response \in Responses :
        /\ mounted
        /\ ~RenderPending
        /\ HandleFinishSettle(r, response)

\* React renders NatalChart with the current chartData
Render == \E lk \in Lookups : RenderNatalChart(lk)

Next == Submit \/ Settle \/ Render

Spec == Init /\ [][Next]_vars

----------------------------------------------------------------------------
(* Properties *)

Positions == { planetaryPositions[i] : i \in 1..Len(planetaryPositions) }

\* the chart of a form submission
ChartOf(values) == Some([dob |-> values.dob, tob |-> values.tob])

\* C1: every longitude L assigned to a body has as sector name the name of
\* the unique ZODIAC_SIGNS entry with start <= L < start + 30.
C1_SectorIsHalfOpenInterval ==
    \A p \in Positions :
        /\ \E z \in 1..Len(ZODIAC_SIGNS) :
              /\ ZODIAC_SIGNS[z].start * Sub <= p.degree
              /\ p.degree < (ZODIAC_SIGNS[z].start + 30) * Sub
              /\ p.sign = ZODIAC_SIGNS[z].name
        /\ \A z \in 1..Len(ZODIAC_SIGNS) :
              p.sign = ZODIAC_SIGNS[z].name =>
                  /\ ZODIAC_SIGNS[z].start * Sub <= p.degree
                  /\ p.degree < (ZODIAC_SIGNS[z].start + 30) * Sub

\* C2: when the lookup of one body throws, the computation still returns
\* the positions of every body whose lookup succeeded and no error
\* propagates out of it (the component stays mounted).
C2_FailureIsIsolatedPerBody ==
    (lookup # Null /\ Get(lookup).failing # 0) =>
        /\ mounted
        /\ \A k \in 1..Len(PLANETS) :
              k # Get(lookup).failing =>
                  \E p \in Positions : p.name = PLANETS[k].name

\* C3: at most one request issued by handleFinish is outstanding at a time.
C3_AtMostOneOutstanding == Cardinality(requests) <= 1

\* C3 witness: a second submission's request is outstanding, alone.
C3_Witness == Cardinality(requests) = 1 /\ started >= 2

\* C4: the longitude stored as degree for each body lies in [0, 360).
C4_DegreeInRange ==
    \A p \in Positions : 0 <= p.degree /\ p.degree < 360 * Sub

\* C5: the timestamp passed to the provider is determined by the birth
\* date's year, month and day and the birth time's hour and minute alone:
\* any (dob, tob) agreeing with the rendered input on those five fields
\* yields the timestamp that was computed.
C5_TimestampFromFiveFields ==
    memoDeps # Null =>
        \A d \in Dobs, t \in Tobs :
            ( /\ d.year = Get(memoDeps).dob.year
              /\ d.month = Get(memoDeps).dob.month
              /\ d.date = Get(memoDeps).dob.date
              /\ t.hour = Get(memoDeps).tob.hour
              /\ t.minute = Get(memoDeps).tob.minute )
            => BirthDate(d, t) = Get(dateObj)

\* C6: when every lookup succeeds the computation returns exactly 7
\* entries, in PLANETS order, each with a non-empty sector name.
C6_SevenNamedEntries ==
    (memoDeps # Null /\ Get(lookup).failing = 0) =>
        /\ Len(planetaryPositions) = Len(PLANETS)
        /\ Len(PLANETS) = 7
        /\ \A i \in 1..Len(planetaryPositions) :
              /\ planetaryPositions[i].name = PLANETS[i].name
              /\ planetaryPositions[i].sign # ""

\* C7: with size 320 (center 160, outer radius 150, inner radius 110) the
\* body at index i is drawn at radius 90 (i even) or 75 (i odd), bodies at
\* adjacent indices get different radii, and radius plus marker radius
\* stays strictly inside the inner ring.
C7_AlternatingRadii ==
    /\ center = 160 /\ radius = 150 /\ innerRadius = 110
    /\ Len(markers) = Len(planetaryPositions)
    /\ \A i \in 1..Len(markers) :
          /\ markers[i] = IF (i - 1) % 2 = 0 THEN 90 ELSE 75
          /\ markers[i] + markerRadius < innerRadius
          /\ i < Len(markers) => markers[i] # markers[i + 1]

\* C7 witness: seven bodies are drawn and two at adjacent indices have the
\* same longitude.
C7_Witness ==
    /\ Len(markers) = 7
    /\ \E i \in 1..(Len(markers) - 1) :
          planetaryPositions[i].degree = planetaryPositions[i + 1].degree

\* C8: chartData holds a submission's dob/tob from the moment its request
\* is issued, and the handling of a failed or invalid response leaves
\* chartData unchanged, still holding that submission's dob/tob.
C8_ChartSurvivesFailure ==
    [][ /\ \A r \in requests' : chartData' = ChartOf(r.values)
        /\ \A r \in requests \ requests' :
              error' # Null =>
                  /\ chartData' = chartData
                  /\ chartData' = ChartOf(r.values) ]_vars

\* C8 witness: a request failed and the chart of its submission is rendered
\* while the error is set.
C8_Witness ==
    /\ error # Null
    /\ requests = {}
    /\ chartData # Null
    /\ memoDeps = chartData

\* C9: result and error are never both non-null.
C9_ResultXorError == ~(result # Null /\ error # Null)

\* C9 witness: the request of a second submission failed.
C9_Witness == error # Null /\ result = Null /\ started >= 2

\* C10: loading is true exactly when a request started by handleFinish is
\* outstanding.
C10_LoadingIffOutstanding == loading <=> (requests # {})

\* C10 witness: every started request has completed, the last one by
\* failing, and loading is false.
C10_Witness == started >= 1 /\ requests = {} /\ ~loading /\ error # Null /\ mounted

====
